---- MODULE Spec2Model ----
(***************************************************************************)
(* A model of desiutil.bitmask: the _MaskBit value type and the BitMask    *)
(* registry (construction from a definition table, lookups by name or bit  *)
(* number, mask expressions, decoding of an integer mask into names,       *)
(* attribute-style access and the yaml rendering).                         *)
(*                                                                         *)
(* Python strings are sequences of one-character strings, so that          *)
(* str.split, str.format and the yaml text are computed character by       *)
(* character.  A dictionary key is a tagged value (int or str), as the     *)
(* registry keeps both kinds of key in the one dict self._bits.            *)
(***************************************************************************)
EXTENDS Integers, Sequences, FiniteSets, TLC

VARIABLES bitdefs, pc, err, _bits, res

vars == <<bitdefs, pc, err, _bits, res>>

\* ------------------------------------------------------------------ bounds

\* Longest definition table.
MaxEntries == 2
\* Highest bit number an entry of the lookup tables may use.
MaxBit == 3
\* Largest integer mask handed to names(mask).
MaxMask == 15

\* ----------------------------------------------------------- python values

\* A dict key: an int or a str.
IntKey(k) == [t |-> "int", i |-> k, s |-> <<>>]
StrKey(s) == [t |-> "str", i |-> 0, s |-> s]

\* The result of a call: a value of some kind, or the exception it raised.
Ret(kind, v) == [err |-> "none", kind |-> kind, val |-> v]
Raise(e) == [err |-> e, kind |-> "none", val |-> <<>>]

RECURSIVE Pow2(_)
Pow2(n) == IF n = 0 THEN 1 ELSE 2 * Pow2(n - 1)

\* a | b on non-negative integers.
RECURSIVE BitOr(_, _)
BitOr(a, b) ==
    IF a = 0 THEN b
    ELSE IF b = 0 THEN a
    ELSE (IF a % 2 = 1 \/ b % 2 = 1 THEN 1 ELSE 0)
         + 2 * BitOr(a \div 2, b \div 2)

\* a & b on non-negative integers.
RECURSIVE BitAnd(_, _)
BitAnd(a, b) ==
    IF a = 0 \/ b = 0 THEN 0
    ELSE (IF a % 2 = 1 /\ b % 2 = 1 THEN 1 ELSE 0)
         + 2 * BitAnd(a \div 2, b \div 2)

Digit(d) == <<"0", "1", "2", "3", "4", "5", "6", "7", "8", "9">>[d + 1]

\* str(n) of a non-negative int.
RECURSIVE PyStr(_)
PyStr(n) == IF n < 10 THEN <<Digit(n)>> ELSE PyStr(n \div 10) \o <<Digit(n % 10)>>

\* s.split(sep) for a one-character separator: the list of the pieces.
RECURSIVE Split(_, _)
Split(s, sep) ==
    IF \A i \in 1..Len(s) : s[i] # sep THEN <<s>>
    ELSE LET i == CHOOSE j \in 1..Len(s) :
                     s[j] = sep /\ \A k \in 1..(j - 1) : s[k] # sep
         IN  <<SubSeq(s, 1, i - 1)>> \o Split(SubSeq(s, i + 1, Len(s)), sep)

\* sorted(S) of a set of ints.
RECURSIVE Sorted(_)
Sorted(S) ==
    IF S = {} THEN <<>>
    ELSE LET m == CHOOSE x \in S : \A y \in S : x <= y
         IN  <<m>> \o Sorted(S \ {m})

\* ------------------------------------------------------------- _MaskBit

\* The attributes _MaskBit.__new__ sets before it reads the extra keys.
OwnAttrs ==
    { <<"n","a","m","e">>, <<"b","i","t","n","u","m">>, <<"m","a","s","k">>,
      <<"c","o","m","m","e","n","t">>, <<"_","e","x","t","r","a">> }

\* Attributes every int object has (a _MaskBit is an int).
IntAttrs ==
    { <<"r","e","a","l">>, <<"i","m","a","g">>,
      <<"n","u","m","e","r","a","t","o","r">>,
      <<"d","e","n","o","m","i","n","a","t","o","r">>,
      <<"c","o","n","j","u","g","a","t","e">>,
      <<"b","i","t","_","l","e","n","g","t","h">> }

\* hasattr that misses the attributes __new__ has set itself.
HasAttrIntOnly(set, key) == key \in IntAttrs \cup set

\* hasattr(self, key) inside _MaskBit.__new__, `set` being the extra keys
\* already written to self.__dict__.
HasAttr(set, key) == key \in OwnAttrs \cup IntAttrs \cup set

\* _MaskBit with self.mask = 2*bitnum.
MaskBitTimes(name, bitnum, comment, extra) ==
    IF \E i \in 1..Len(extra) :
           HasAttr({extra[j][1] : j \in 1..(i - 1)}, extra[i][1])
    THEN Raise("AttributeError")
    ELSE Ret("bit", [name |-> name, bitnum |-> bitnum, mask |-> 2 * bitnum,
                     comment |-> comment, _extra |-> extra])

\* _MaskBit(name, bitnum, comment, extra); extra is the list of the dict's
\* (key, value) items.  The first key already in use raises.
MaskBit(name, bitnum, comment, extra) ==
    IF \E i \in 1..Len(extra) :
           HasAttr({extra[j][1] : j \in 1..(i - 1)}, extra[i][1])
    THEN Raise("AttributeError")
    ELSE Ret("bit", [name |-> name, bitnum |-> bitnum, mask |-> Pow2(bitnum),
                     comment |-> comment, _extra |-> extra])

\* ------------------------------------------------------- BitMask.__init__

\* A 4th element of an entry: a dict (its items) or something else.
Dict(items) == [isdict |-> TRUE, items |-> items]
NotADict == [isdict |-> FALSE, items |-> <<>>]

\* The check of the 4th element left out.
IsInstanceDictAlways(extra) == TRUE

\* isinstance(extra, dict)
IsInstanceDict(extra) == extra.isdict

\* The extra handed to _MaskBit for entry x, or the ValueError.
ExtraOf(x) ==
    IF Len(x) = 4
    THEN IF ~IsInstanceDict(x[4]) THEN Raise("ValueError")
         ELSE Ret("dict", x[4].items)
    ELSE Ret("dict", <<>>)

\* The second key being the mask value instead of the bit number.
RegisterByMask(bits, bit) ==
    (IntKey(bit.mask) :> bit) @@ ((StrKey(bit.name) :> bit) @@ bits)

\* self._bits[bitname] = bit; self._bits[bitnum] = self._bits[bitname]
Register(bits, bit) ==
    (IntKey(bit.bitnum) :> bit) @@ ((StrKey(bit.name) :> bit) @@ bits)

\* The for loop of __init__ from entry i on: the filled dict, or the first
\* exception raised.
RECURSIVE InitLoop(_, _, _)
InitLoop(bits, defs, i) ==
    IF i > Len(defs) THEN Ret("dict", bits)
    ELSE LET x == defs[i]
             extra == ExtraOf(x)
         IN  IF extra.err # "none" THEN extra
             ELSE LET bit == MaskBit(x[1], x[2], x[3], extra.val)
                  IN  IF bit.err # "none" THEN bit
                      ELSE InitLoop(Register(bits, bit.val), defs, i + 1)

\* BitMask(name, bitdefs): the registry's _bits, or the exception.
BitMask(defs) == InitLoop(<<>>, defs, 1)

\* ------------------------------------------------------------- lookups

\* BitMask.__getitem__: self._bits[key], a KeyError when the key is absent.
GetItem(bits, key) ==
    IF key \in DOMAIN bits THEN Ret("bit", bits[key]) ELSE Raise("KeyError")

\* BitMask.bitnum
bitnum(bits, key) ==
    LET b == GetItem(bits, key)
    IN  IF b.err # "none" THEN b ELSE Ret("int", b.val.bitnum)

\* BitMask.bitname
bitname(bits, key) ==
    LET b == GetItem(bits, key)
    IN  IF b.err # "none" THEN b ELSE Ret("str", b.val.name)

\* BitMask.comment
comment(bits, key) ==
    LET b == GetItem(bits, key)
    IN  IF b.err # "none" THEN b ELSE Ret("str", b.val.comment)

\* The loop adding the masks instead of or-ing them.
RECURSIVE MaskLoopPlus(_, _, _, _)
MaskLoopPlus(bits, pieces, i, m) ==
    IF i > Len(pieces) THEN Ret("int", m)
    ELSE LET b == GetItem(bits, StrKey(pieces[i]))
         IN  IF b.err # "none" THEN b
             ELSE MaskLoopPlus(bits, pieces, i + 1, m + b.val.mask)

\* The for loop of mask() over the split names, from piece i on.
RECURSIVE MaskLoop(_, _, _, _)
MaskLoop(bits, pieces, i, m) ==
    IF i > Len(pieces) THEN Ret("int", m)
    ELSE LET b == GetItem(bits, StrKey(pieces[i]))
         IN  IF b.err # "none" THEN b
             ELSE MaskLoop(bits, pieces, i + 1, BitOr(m, b.val.mask))

\* BitMask.mask
mask(bits, name_or_num) ==
    IF name_or_num.t = "int"
    THEN LET b == GetItem(bits, name_or_num)
         IN  IF b.err # "none" THEN b ELSE Ret("int", b.val.mask)
    ELSE MaskLoop(bits, Split(name_or_num.s, "|"), 1, 0)

\* The argument None.
None == [t |-> "none", i |-> 0, s |-> <<>>]

\* The while loop of names(mask) from bit number n on.
RECURSIVE NamesLoop(_, _, _, _)
NamesLoop(bits, m, n, out) ==
    IF n * n <= m
    THEN NamesLoop(bits, m, n + 1,
             IF BitAnd(Pow2(n), m) # 0
             THEN IF IntKey(n) \in DOMAIN bits
                  THEN Append(out, bits[IntKey(n)].name)
                  ELSE Append(out, <<"U","N","K","N","O","W","N">> \o PyStr(n))
             ELSE out)
    ELSE out

\* BitMask.names
names(bits, m) ==
    IF m.t = "none"
    THEN LET bitnums == {k.i : k \in {x \in DOMAIN bits : x.t = "int"}}
             order == Sorted(bitnums)
         IN  Ret("list", [j \in 1..Len(order) |-> bits[IntKey(order[j])].name])
    ELSE Ret("list", NamesLoop(bits, m.i, 0, <<>>))

\* __getattr__ as a plain self._bits[name].
getattrGetItem(bits, name) == GetItem(bits, StrKey(name))

\* BitMask.__getattr__, which Python calls only when the normal lookup of
\* the attribute has failed.
__getattr__(bits, name) ==
    IF StrKey(name) \in DOMAIN bits THEN Ret("bit", bits[StrKey(name)])
    ELSE Raise("AttributeError")

\* The names the normal lookup finds on a BitMask: the two instance
\* attributes of __init__ and the methods of the class.
Members ==
    { <<"_","b","i","t","s">>, <<"_","n","a","m","e">>,
      <<"b","i","t","n","u","m">>, <<"b","i","t","n","a","m","e">>,
      <<"c","o","m","m","e","n","t">>, <<"m","a","s","k">>,
      <<"n","a","m","e","s">> }

\* registry.NAME
Attribute(bits, name) ==
    IF name \in Members THEN Ret("member", name) ELSE __getattr__(bits, name)

\* ------------------------------------------------------------- __repr__

\* self._name
_name == <<"c","c","d","m","a","s","k">>

Spaces(n) == [j \in 1..n |-> " "]

\* '{:16s}'.format(s) and the like: s, padded on the right to the width.
LJust(s, width) == IF Len(s) >= width THEN s ELSE s \o Spaces(width - Len(s))

\* '{:2d}'.format(n): the digits, padded on the left to the width.
RJust(s, width) == IF Len(s) >= width THEN s ELSE Spaces(width - Len(s)) \o s

\* repr(s) of a str without quotes or backslashes.
PyRepr(s) == <<"'">> \o s \o <<"'">>

\* ', '.join of the "key: value" texts of the items from item i on.
RECURSIVE DictItems(_, _)
DictItems(items, i) ==
    IF i > Len(items) THEN <<>>
    ELSE (IF i > 1 THEN <<",", " ">> ELSE <<>>)
         \o PyRepr(items[i][1]) \o <<":", " ">> \o PyRepr(items[i][2])
         \o DictItems(items, i + 1)

\* str(d) of a dict of str keys and values.
DictStr(items) == <<"{">> \o DictItems(items, 1) \o <<"}">>

\* The line of one bit, with or without extra keys.
Line(bit) ==
    <<" ", " ", "-", " ", "[">> \o LJust(bit.name \o <<",">>, 16) \o <<" ">>
    \o RJust(PyStr(bit.bitnum), 2) \o <<",", " ", "\"">> \o bit.comment \o <<"\"">>
    \o (IF Len(bit._extra) > 0
        THEN <<",", " ">> \o DictStr(bit._extra) \o <<"]">>
        ELSE <<"]">>)

\* "\n".join(result)
RECURSIVE Join(_, _)
Join(lines, i) ==
    IF i > Len(lines) THEN <<>>
    ELSE (IF i > 1 THEN <<"\n">> ELSE <<>>) \o lines[i] \o Join(lines, i + 1)

\* BitMask.__repr__: the header, then one line per bit in the order of the
\* bit numbers.
Repr(bits) ==
    LET bitnums == {k.i : k \in {x \in DOMAIN bits : x.t = "int"}}
        order == Sorted(bitnums)
    IN  Join(<<_name \o <<":">>>>
             \o [j \in 1..Len(order) |-> Line(bits[IntKey(order[j])])], 1)

\* ------------------------------------------------------------- yaml.load

\* A node of the loaded document: a str, an int or a mapping.
YStr(s) == [t |-> "str", i |-> 0, s |-> s, items |-> <<>>]
YInt(n) == [t |-> "int", i |-> n, s |-> <<>>, items |-> <<>>]
YMap(items) == [t |-> "map", i |-> 0, s |-> <<>>, items |-> items]

\* What a scan returns: the node read and the index after it, or an error.
Got(node, next) == [bad |-> FALSE, node |-> node, next |-> next]
Bad == [bad |-> TRUE, node |-> YInt(0), next |-> 0]

Digits == {"0", "1", "2", "3", "4", "5", "6", "7", "8", "9"}

DigitValue(c) == CHOOSE d \in 0..9 : Digit(d) = c

RECURSIVE IntOf(_)
IntOf(s) ==
    IF Len(s) = 0 THEN 0
    ELSE 10 * IntOf(SubSeq(s, 1, Len(s) - 1)) + DigitValue(s[Len(s)])

\* The index of the first character from i on that is not a space.
RECURSIVE SkipSpaces(_, _)
SkipSpaces(s, i) ==
    IF i <= Len(s) /\ s[i] = " " THEN SkipSpaces(s, i + 1) ELSE i

\* s without its trailing spaces.
RECURSIVE RStrip(_)
RStrip(s) ==
    IF Len(s) > 0 /\ s[Len(s)] = " " THEN RStrip(SubSeq(s, 1, Len(s) - 1)) ELSE s

\* A double-quoted scalar whose opening quote is before i: the text to the
\* closing quote, with the escapes \" and \\ resolved.
RECURSIVE DoubleQuoted(_, _, _)
DoubleQuoted(s, i, acc) ==
    IF i > Len(s) THEN Bad
    ELSE IF s[i] = "\"" THEN Got(YStr(acc), i + 1)
    ELSE IF s[i] = "\\"
         THEN IF i + 1 <= Len(s) /\ s[i + 1] \in {"\"", "\\"}
              THEN DoubleQuoted(s, i + 2, Append(acc, s[i + 1]))
              ELSE Bad
    ELSE DoubleQuoted(s, i + 1, Append(acc, s[i]))

\* A single-quoted scalar whose opening quote is before i.
RECURSIVE SingleQuoted(_, _, _)
SingleQuoted(s, i, acc) ==
    IF i > Len(s) THEN Bad
    ELSE IF s[i] = "'" THEN Got(YStr(acc), i + 1)
    ELSE SingleQuoted(s, i + 1, Append(acc, s[i]))

\* A plain scalar of a flow collection from i on: it ends before the next
\* "," or "]" or "}"; digits alone are an int.
RECURSIVE PlainEnd(_, _)
PlainEnd(s, i) ==
    IF i > Len(s) \/ s[i] \in {",", "]", "}"} THEN i ELSE PlainEnd(s, i + 1)

Plain(s, i) ==
    LET j == PlainEnd(s, i)
        text == RStrip(SubSeq(s, i, j - 1))
    IN  IF Len(text) = 0 THEN Bad
        ELSE IF \A k \in 1..Len(text) : text[k] \in Digits
             THEN Got(YInt(IntOf(text)), j)
        ELSE Got(YStr(text), j)

\* A scalar from i on.
Scalar(s, i) ==
    IF i > Len(s) THEN Bad
    ELSE IF s[i] = "\"" THEN DoubleQuoted(s, i + 1, <<>>)
    ELSE IF s[i] = "'" THEN SingleQuoted(s, i + 1, <<>>)
    ELSE Plain(s, i)

\* The index of the ":" and space that end a key read up to index i, or 0.
Colon(s, i) ==
    IF SkipSpaces(s, i) + 1 <= Len(s) /\ s[SkipSpaces(s, i)] = ":"
       /\ s[SkipSpaces(s, i) + 1] = " "
    THEN SkipSpaces(s, i) ELSE 0

\* The pairs of a flow mapping from i on (after "{" or ","), to its "}".
RECURSIVE FlowMap(_, _, _)
RECURSIVE FlowMapValue(_, _, _)
RECURSIVE FlowMapRest(_, _, _)

FlowMap(s, i, items) ==
    FlowMapValue(s, Scalar(s, SkipSpaces(s, i)), items)

\* The value after the key k.
FlowMapValue(s, k, items) ==
    IF k.bad THEN Bad
    ELSE IF k.node.t # "str" \/ Colon(s, k.next) = 0 THEN Bad
    ELSE FlowMapRest(s, Scalar(s, SkipSpaces(s, Colon(s, k.next) + 1)),
                     Append(items, <<k.node.s>>))

\* What follows the value v: the end of the mapping or the next pair.
FlowMapRest(s, v, items) ==
    IF v.bad THEN Bad
    ELSE IF v.node.t # "str" \/ SkipSpaces(s, v.next) > Len(s) THEN Bad
    ELSE IF s[SkipSpaces(s, v.next)] = "}"
         THEN Got(YMap([items EXCEPT ![Len(items)] = Append(@, v.node.s)]),
                  SkipSpaces(s, v.next) + 1)
    ELSE IF s[SkipSpaces(s, v.next)] = ","
         THEN FlowMap(s, SkipSpaces(s, v.next) + 1,
                      [items EXCEPT ![Len(items)] = Append(@, v.node.s)])
    ELSE Bad

\* A node of a flow sequence from i on.
Node(s, i) ==
    IF i <= Len(s) /\ s[i] = "{"
    THEN IF SkipSpaces(s, i + 1) <= Len(s) /\ s[SkipSpaces(s, i + 1)] = "}"
         THEN Got(YMap(<<>>), SkipSpaces(s, i + 1) + 1)
         ELSE FlowMap(s, i + 1, <<>>)
    ELSE Scalar(s, i)

\* The nodes of a flow sequence from i on (after "[" or ","), to its "]",
\* after which the line holds nothing more.
RECURSIVE FlowSeq(_, _, _)
RECURSIVE FlowSeqRest(_, _, _)

FlowSeq(s, i, nodes) == FlowSeqRest(s, Node(s, SkipSpaces(s, i)), nodes)

\* What follows the node n: the end of the sequence or the next node.
FlowSeqRest(s, n, nodes) ==
    IF n.bad THEN Bad
    ELSE IF SkipSpaces(s, n.next) > Len(s) THEN Bad
    ELSE IF s[SkipSpaces(s, n.next)] = "]"
         THEN IF SkipSpaces(s, SkipSpaces(s, n.next) + 1) > Len(s)
              THEN [bad |-> FALSE, node |-> Append(nodes, n.node),
                    next |-> SkipSpaces(s, n.next) + 1]
              ELSE Bad
    ELSE IF s[SkipSpaces(s, n.next)] = ","
         THEN FlowSeq(s, SkipSpaces(s, n.next) + 1, Append(nodes, n.node))
    ELSE Bad

\* The entry of the table that a loaded list of nodes is, as __init__ reads
\* it: a name, a bit number, a comment, and a 4th element if there is one.
EntryOf(nodes) ==
    IF Len(nodes) < 3 THEN Raise("ValueError")
    ELSE IF nodes[1].t # "str" \/ nodes[2].t # "int" \/ nodes[3].t # "str"
         THEN Raise("TypeError")
    ELSE IF Len(nodes) = 3
         THEN Ret("entry", <<nodes[1].s, nodes[2].i, nodes[3].s>>)
    ELSE Ret("entry", <<nodes[1].s, nodes[2].i, nodes[3].s,
                        IF nodes[4].t = "map" THEN Dict(nodes[4].items)
                        ELSE NotADict>>)

\* The entry of one "  - [...]" line.
LineEntry(l) ==
    IF Len(l) < 5 \/ SubSeq(l, 1, 5) # <<" ", " ", "-", " ", "[">>
    THEN Raise("YAMLError")
    ELSE IF FlowSeq(l, 6, <<>>).bad THEN Raise("YAMLError")
    ELSE EntryOf(FlowSeq(l, 6, <<>>).node)

\* The entries of the block sequence, one line each, from line i on.
RECURSIVE BlockSeq(_, _, _)
BlockSeq(lines, i, defs) ==
    IF i > Len(lines) THEN Ret("table", defs)
    ELSE IF LineEntry(lines[i]).err # "none" THEN LineEntry(lines[i])
    ELSE BlockSeq(lines, i + 1, Append(defs, LineEntry(lines[i]).val))

\* yaml.load(text)[name]: the table under the key of the header line.
\* A header line alone loads as the key with the value None.
YamlLoadLines(lines, name) ==
    IF Len(lines[1]) = 0 \/ lines[1][Len(lines[1])] # ":"
    THEN Raise("YAMLError")
    ELSE IF SubSeq(lines[1], 1, Len(lines[1]) - 1) # name
         THEN Raise("KeyError")
    ELSE IF Len(lines) = 1 THEN Ret("null", <<>>)
    ELSE BlockSeq(lines, 2, <<>>)

YamlLoad(text, name) == YamlLoadLines(Split(text, "\n"), name)

\* BitMask('ccdmask', yaml.load(str(self.ccdmask))): the registry built from
\* the rendering of another.  The for loop of __init__ over None raises.
Reload(bits) ==
    IF YamlLoad(Repr(bits), _name).err # "none" THEN YamlLoad(Repr(bits), _name)
    ELSE IF YamlLoad(Repr(bits), _name).kind = "null" THEN Raise("TypeError")
    ELSE BitMask(YamlLoad(Repr(bits), _name).val)

\* ------------------------------------------------------------- inputs

Cok == <<"o","k">>

\* The bit names of the tables: two plain names and one that holds the
\* separator of mask expressions.
BitNames == { <<"A">>, <<"B">>, <<"A","|","B">> }

\* Entries of three elements, every name at every bit number.
LookupEntries == { <<n, k, Cok>> : n \in BitNames, k \in 0..MaxBit }

Cquote == <<"\"">>

Kblat == <<"b","l","a","t">>
Vfoo == <<"f","o","o">>

\* The attribute names of a bit definition that an extra key may not take.
Reserved ==
    { <<"n","a","m","e">>, <<"b","i","t","n","u","m">>, <<"m","a","s","k">>,
      <<"c","o","m","m","e","n","t">> }

\* What follows the name and the bit number in an entry: a comment alone (one
\* of them holding a double quote), or a comment and a 4th element: an empty
\* dict, dicts of free keys, dicts with a key in use, and an int.
Payloads ==
    { <<Cok>>, <<Cquote>>, <<Cok, Dict(<<>>)>>, <<Cok, Dict(<< <<Kblat, Vfoo>> >>)>>,
      <<Cok, Dict(<< <<Kblat, Vfoo>>, <<<<"m","a","s","k">>, Vfoo>> >>)>>,
      <<Cok, Dict(<< <<<<"r","e","a","l">>, Vfoo>> >>)>>,
      <<Cok, NotADict>> }
    \cup { <<Cok, Dict(<< <<k, Vfoo>> >>)>> : k \in Reserved }

\* Entries of three or four elements, for two bits.
ExtraEntries ==
    { <<nk[1], nk[2]>> \o p : nk \in { <<<<"A">>, 0>>, <<<<"B">>, 1>> }, p \in Payloads }

\* All tables of at most MaxEntries entries of E.
Tables(E) == UNION { [1..n -> E] : n \in 0..MaxEntries }

\* Names asked for: the bit names and one no table has.
QueryNames == BitNames \cup { <<"C">> }

\* Keys asked for.
QueryKeys ==
    { StrKey(n) : n \in QueryNames } \cup { IntKey(k) : k \in 0..(MaxBit + 1) }

\* Mask expressions: one name, or two joined by the separator.
Exprs ==
    QueryNames \cup { a \o <<"|">> \o b : a \in QueryNames, b \in QueryNames }

\* Attributes asked for.
AttrNames == QueryNames \cup { <<"m","a","s","k">>, <<"n","a","m","e","s">> }

\* ------------------------------------------------------------- actions

NoRes == [op |-> "none", arg |-> None, out |-> Raise("none")]

Init ==
    /\ bitdefs \in Tables(LookupEntries) \cup Tables(ExtraEntries)
    /\ pc = "new"
    /\ err = "none"
    /\ _bits = <<>>
    /\ res = NoRes

\* BitMask('ccdmask', bitdefs): the registry, or the exception and no
\* registry.
Construct ==
    /\ pc = "new"
    /\ LET r == BitMask(bitdefs)
       IN  IF r.err = "none"
           THEN pc' = "built" /\ _bits' = r.val /\ err' = "none"
           ELSE pc' = "failed" /\ _bits' = <<>> /\ err' = r.err
    /\ UNCHANGED <<bitdefs, res>>

\* A call of a method of the registry, which the caller has then in hand.
Call(op, arg, out) ==
    /\ pc = "built"
    /\ res.op = "none"
    /\ res' = [op |-> op, arg |-> arg, out |-> out]
    /\ UNCHANGED <<bitdefs, pc, err, _bits>>

CallGetItem == \E k \in QueryKeys : Call("getitem", k, GetItem(_bits, k))

CallBitnum == \E k \in QueryKeys : Call("bitnum", k, bitnum(_bits, k))

CallBitname == \E k \in QueryKeys : Call("bitname", k, bitname(_bits, k))

CallComment == \E k \in QueryKeys : Call("comment", k, comment(_bits, k))

CallMask ==
    \E k \in { StrKey(e) : e \in Exprs } \cup { IntKey(n) : n \in 0..(MaxBit + 1) } :
        Call("mask", k, mask(_bits, k))

CallNames ==
    \E m \in { None } \cup { IntKey(n) : n \in 0..MaxMask } :
        Call("names", m, names(_bits, m))

CallAttribute ==
    \E n \in AttrNames : Call("getattr", StrKey(n), Attribute(_bits, n))

CallRepr == Call("repr", None, Ret("str", Repr(_bits)))

CallReload == Call("reload", None, Reload(_bits))

\* The caller is done with the result.
Return ==
    /\ res.op # "none"
    /\ res' = NoRes
    /\ UNCHANGED <<bitdefs, pc, err, _bits>>

Next ==
    \/ Construct
    \/ CallGetItem
    \/ CallBitnum
    \/ CallBitname
    \/ CallComment
    \/ CallMask
    \/ CallNames
    \/ CallAttribute
    \/ CallRepr
    \/ CallReload
    \/ Return

Spec == Init /\ [][Next]_vars

\* ------------------------------------------------------------- properties

\* The names a table registers.
TableNames(defs) == { defs[i][1] : i \in 1..Len(defs) }

\* The names and the bit numbers of the table are pairwise distinct.
Distinct(defs) ==
    \A i, j \in 1..Len(defs) :
        i # j => defs[i][1] # defs[j][1] /\ defs[i][2] # defs[j][2]

\* The bit positions set in m, in ascending order.
SetBits(m) == Sorted({ k \in 0..m : (m \div Pow2(k)) % 2 = 1 })

\* The name decoded for position k: the registered one, or UNKNOWN<k>.
NameAt(bits, k) ==
    IF IntKey(k) \in DOMAIN bits THEN bits[IntKey(k)].name
    ELSE <<"U","N","K","N","O","W","N">> \o PyStr(k)

\* How often x is in the list l.
Count(l, x) == Cardinality({ i \in 1..Len(l) : l[i] = x })

\* The two exceptions of the construction, which the specification calls
\* ValidationError.
ValidationError == { "ValueError", "AttributeError" }

\* Entry x has a 4th element that is a dict with a reserved key.
HasReservedKey(x) ==
    /\ Len(x) = 4
    /\ x[4].isdict
    /\ \E i \in 1..Len(x[4].items) : x[4].items[i][1] \in Reserved

\* Entry x has a 4th element that is not a dict.
HasMalformedExtra(x) == Len(x) = 4 /\ ~x[4].isdict

\* C1: names(m) holds one entry per bit set in m, in ascending order of the
\* bit positions, the registered name or UNKNOWN<k>, and nothing else.
C1_DecodeCorrect ==
    (res.op = "names" /\ res.arg.t = "int") =>
        /\ res.out.err = "none"
        /\ res.out.val =
              [j \in 1..Len(SetBits(res.arg.i)) |-> NameAt(_bits, SetBits(res.arg.i)[j])]

\* C2: the registry built from the loaded rendering of a registry has the
\* same names() and, under every name, the same mask, bit number, comment
\* and extra attributes.
C2_RoundTrip ==
    res.op = "reload" =>
        /\ res.out.err = "none"
        /\ names(res.out.val, None).val = names(_bits, None).val
        /\ \A n \in { k \in DOMAIN _bits : k.t = "str" } :
              n \in DOMAIN res.out.val /\ res.out.val[n] = _bits[n]

\* C3, as stated: in a registry of a table with distinct names and bit
\* numbers, mask(n) of a registered name n is 2^bitnum(n) and is
\* mask(bitnum(n)).
C3_MaskConsistent ==
    (/\ res.op = "mask" /\ res.arg.t = "str"
     /\ res.arg.s \in TableNames(bitdefs) /\ Distinct(bitdefs)) =>
        /\ res.out.err = "none"
        /\ res.out.val = Pow2(bitnum(_bits, res.arg).val)
        /\ res.out.val = mask(_bits, IntKey(bitnum(_bits, res.arg).val)).val

\* C3, amended: the same for every registered name that does not hold the
\* separator "|" of mask expressions.
C3_MaskConsistentPlainName ==
    (/\ res.op = "mask" /\ res.arg.t = "str"
     /\ res.arg.s \in TableNames(bitdefs) /\ Distinct(bitdefs)
     /\ \A i \in 1..Len(res.arg.s) : res.arg.s[i] # "|") =>
        /\ res.out.err = "none"
        /\ res.out.val = Pow2(bitnum(_bits, res.arg).val)
        /\ mask(_bits, IntKey(bitnum(_bits, res.arg).val)).err = "none"
        /\ res.out.val = mask(_bits, IntKey(bitnum(_bits, res.arg).val)).val

C3_Witness ==
    /\ res.op = "mask" /\ res.arg = StrKey(<<"B">>)
    /\ Len(bitdefs) = 2 /\ Distinct(bitdefs)
    /\ <<"A","|","B">> \in TableNames(bitdefs)
    /\ res.out.err = "none" /\ res.out.val = 8

\* C4: in a registry of a table with distinct names and bit numbers,
\* bitname(bitnum(n)) is n for every registered name n.
C4_NameNumberName ==
    (res.op = "bitname" /\ res.arg.t = "int" /\ Distinct(bitdefs)) =>
        \A n \in TableNames(bitdefs) :
            /\ bitnum(_bits, StrKey(n)).err = "none"
            /\ bitnum(_bits, StrKey(n)).val = res.arg.i =>
                   res.out.err = "none" /\ res.out.val = n

C4_Witness ==
    /\ res.op = "bitname" /\ res.arg = IntKey(3)
    /\ Len(bitdefs) = 2 /\ Distinct(bitdefs)
    /\ bitnum(_bits, StrKey(<<"B">>)).err = "none"
    /\ bitnum(_bits, StrKey(<<"B">>)).val = 3
    /\ res.out.err = "none" /\ res.out.val = <<"B">>

\* The outcome r of mask("a|b") is that of mask(a) | mask(b): the or of the
\* two values, or the KeyError that one of the two raises.
OrOf(r, ma, mb) ==
    IF ma.err = "none" /\ mb.err = "none"
    THEN r.err = "none" /\ r.val = BitOr(ma.val, mb.val)
    ELSE r.err = "KeyError"

\* C5: for registered names a and b (a = b too), mask("a|b") is the bitwise
\* or of mask(a) and mask(b), and so is mask("b|a").
C5_Combination ==
    (res.op = "mask" /\ res.arg.t = "str") =>
        \A a, b \in TableNames(bitdefs) :
            res.arg.s = a \o <<"|">> \o b =>
                /\ OrOf(res.out, mask(_bits, StrKey(a)), mask(_bits, StrKey(b)))
                /\ OrOf(mask(_bits, StrKey(b \o <<"|">> \o a)),
                        mask(_bits, StrKey(a)), mask(_bits, StrKey(b)))

C5_Witness ==
    /\ res.op = "mask" /\ res.arg = StrKey(<<"B","|","A">>)
    /\ bitdefs = << <<<<"A">>, 0, Cok>>, <<<<"B">>, 2, Cok>> >>
    /\ res.out.err = "none" /\ res.out.val = 5

\* C6: a table with an entry whose extra dict has a reserved key, wherever
\* the entry is, fails to construct with a ValidationError, and leaves no
\* registry.
C6_ReservedKeyRejected ==
    (pc # "new" /\ \E i \in 1..Len(bitdefs) : HasReservedKey(bitdefs[i])) =>
        pc = "failed" /\ err \in ValidationError /\ DOMAIN _bits = {}

C6_Witness ==
    /\ pc = "failed" /\ err = "AttributeError"
    /\ Len(bitdefs) = 2
    /\ Len(bitdefs[1]) = 3
    /\ HasReservedKey(bitdefs[2])

\* C7: a table with an entry whose 4th element is not a dict, wherever the
\* entry is, fails to construct with a ValidationError, and leaves no
\* registry; the ValueError of the malformed extra is raised for no table
\* whose entries all have three elements or a dict as the 4th.
C7_MalformedExtraRejected ==
    /\ (pc # "new" /\ \E i \in 1..Len(bitdefs) : HasMalformedExtra(bitdefs[i])) =>
           pc = "failed" /\ err \in ValidationError /\ DOMAIN _bits = {}
    /\ err = "ValueError" => \E i \in 1..Len(bitdefs) : HasMalformedExtra(bitdefs[i])

C7_Witness ==
    /\ pc = "failed" /\ err = "ValueError"
    /\ Len(bitdefs) = 2
    /\ Len(bitdefs[1]) = 4 /\ bitdefs[1][4].isdict
    /\ HasMalformedExtra(bitdefs[2])

\* C8: names() holds the name of every registered bit once, in ascending
\* order of the bit numbers, whatever the order of the table.
C8_AllNamesOnceInOrder ==
    (res.op = "names" /\ res.arg.t = "none") =>
        /\ res.out.err = "none"
        /\ \A n \in TableNames(bitdefs) : Count(res.out.val, n) = 1
        /\ \A i \in 1..Len(res.out.val) : res.out.val[i] \in TableNames(bitdefs)
        /\ \A i, j \in 1..Len(res.out.val) :
              i < j => _bits[StrKey(res.out.val[i])].bitnum
                         < _bits[StrKey(res.out.val[j])].bitnum

\* C9, as stated: registry.NAME is get(NAME) for a registered name that is
\* no member of the registry, and raises AttributeError for every name that
\* is not registered.
C9_AttributeAccess ==
    res.op = "getattr" =>
        /\ (res.arg \in DOMAIN _bits /\ res.arg.s \notin Members) =>
               res.out.err = "none" /\ res.out.val = GetItem(_bits, res.arg).val
        /\ res.arg \notin DOMAIN _bits => res.out.err = "AttributeError"

\* C9, amended: registry.NAME is get(NAME) for a registered name that is no
\* member of the registry, and raises AttributeError, never KeyError, for
\* every name that is neither registered nor a member of the registry.
C9_AttributeAccessNonMember ==
    (res.op = "getattr" /\ res.arg.s \notin Members) =>
        /\ res.arg \in DOMAIN _bits =>
               res.out.err = "none" /\ res.out.val = GetItem(_bits, res.arg).val
        /\ res.arg \notin DOMAIN _bits =>
               res.out.err = "AttributeError" /\ GetItem(_bits, res.arg).err = "KeyError"

C9_Witness ==
    /\ res.op = "getattr" /\ res.arg = StrKey(<<"C">>)
    /\ Len(bitdefs) = 2
    /\ res.out.err = "AttributeError"

\* C10: a constructed registry holds definitions of pairwise distinct names
\* and pairwise distinct bit numbers, and the definition under a name is the
\* one under its bit number, and the reverse.
C10_Unique ==
    pc = "built" =>
        /\ \A k1, k2 \in DOMAIN _bits :
              _bits[k1] # _bits[k2] =>
                  /\ _bits[k1].name # _bits[k2].name
                  /\ _bits[k1].bitnum # _bits[k2].bitnum
        /\ \A k \in DOMAIN _bits :
              /\ _bits[StrKey(_bits[k].name)] = _bits[k]
              /\ _bits[IntKey(_bits[k].bitnum)] = _bits[k]


====
